---- MODULE Spec2Model ----
(***************************************************************************)
(* Model of the classification engine of automated-process-classification *)
(* (src/src/classification.rs) and of the command surface that prints its  *)
(* result (src/src/main.rs).                                               *)
(*                                                                         *)
(* A ratio is kept as the pair <<count, total>> of the two integers the    *)
(* code divides as f64.  Every threshold of the code is a literal with two *)
(* decimals, h/100.  For totals far below 2^50 the f64 quotient count/total*)
(* and the f64 literal compare exactly as the rationals count/total and    *)
(* h/100 do (equal rationals round to the same double, different ones are  *)
(* at least 1/(100*total) apart, far more than one ulp), so a comparison   *)
(* is modelled by the cross-multiplied integer comparison.                 *)
(***************************************************************************)
EXTENDS Integers, Sequences, FiniteSets, TLC

\* Largest matrix.len() that is explored.
MaxEntries == 9

\* Largest matrix.len() that is explored where the whole matrix is drawn first.
MaxMatrixEntries == 3

\* Distance between two counts on the grid of 100-entry matrices.
GridStep == 5

\* Largest matrix.len() of the matrix mined from the file of the command line.
MaxMinedEntries == 1

\* Largest number of events of the page (file selections, FileReader loads,
\* threshold inputs, clicks) in one session.
MaxEvents == 4

\* Largest number of FileReader loads under way at once.
MaxPendingLoads == 1

\* Largest number of true sub-conditions per rule result that is explored when
\* calculate_by_most_indicators is applied to arbitrary rule results.
MaxTrueConditions == 2

VARIABLES
    total_entries,                      \* matrix.len()
    visited,                            \* entries of matrix.values() already visited by the loop
    counts,                             \* the nine counts_* locals of CalculatedPercentages::new
    percentages,                        \* the CalculatedPercentages value
    primary_matched_categories_set,
    primary_rule_results_for_indicators,
    secondary_matched_categories_set,
    secondary_rule_results_for_indicators,
    result,                             \* the Classification returned by classify_matrix
    return_site,                        \* which return statement of classify_matrix produced it
    stdout,                             \* lines printed by main
    stderr,
    pc,
    matrix,                             \* the values of the matrix as a bag, where it is drawn whole
    unvisited,                          \* the values matrix.values() has not yielded yet
    call,                               \* 1 or 2: which call of classify_matrix on the matrix runs
    first_result,                       \* what the first call returned
    first_rule_results,                 \* the rule results of the first call
    args,                               \* the Args main parsed from the command line
    main_pc,                            \* where main stands
    app_state,                          \* the AppState held by use_state
    pending_loads,                      \* FileReader loads under way: the AppState their dispatch closure holds
    task,                               \* the future given to spawn_local and not run yet
    started,                            \* the thresholds of the last parse_into_traces call
    last_task,                          \* what the last future run by spawn_local called and got
    events                              \* events of the page handled so far

vars == <<total_entries, visited, counts, percentages,
          primary_matched_categories_set, primary_rule_results_for_indicators,
          secondary_matched_categories_set, secondary_rule_results_for_indicators,
          result, return_site, stdout, stderr, pc,
          matrix, unvisited, call, first_result, first_rule_results,
          args, main_pc, app_state, pending_loads, task, started, last_task, events>>

\* The variables of the specifications that keep the whole matrix.
matrix_vars == <<matrix, unvisited, call, first_result, first_rule_results>>

\* The variables of main and of the App component.
app_vars == <<args, main_pc, app_state, pending_loads, task, started, last_task, events>>

(***************************************************************************)
(* Data types                                                              *)
(***************************************************************************)

\* Option<temporal::DependencyType>
TemporalType == {"None", "Direct", "Eventual"}

\* Option<existential::DependencyType>
ExistentialType == {"None", "Implication", "Equivalence", "NegatedEquivalence", "Nand", "Or"}

\* What the classification reads of a Dependency: its two optional types.
EntryKind == TemporalType \X ExistentialType

\* The matrix without entries.
EmptyMatrix == [ k \in EntryKind |-> 0 ]

RuleCategory == {"Structured", "SemiStructured", "LooselyStructured"}

\* The six named outcomes; Error(String) is <<"Error", message>>.
NamedClassification ==
    { <<"Structured">>, <<"SemiStructured">>, <<"LooselyStructured">>,
      <<"StructuredSemiStructured">>, <<"SemiStructuredLooselyStructured">>,
      <<"Unstructured">> }

ErrorMessages ==
    { "Input matrix is empty",
      "No category had significant indicators.",
      "Unexpected combination in top categories (2).",
      "No category had a top score in most indicators (or internal error)." }

Classification == NamedClassification \cup { <<"Error", m>> : m \in ErrorMessages }

CounterNames ==
    { "none_none", "none_implication", "none_equivalence", "none_negated_equivalence",
      "eventual_equivalence", "eventual_implication", "eventual_any", "direct_any",
      "direct_none" }

ZeroCounts == [ c \in CounterNames |-> 0 ]

\* #[derive(Default)]: every ratio 0.0
DefaultPercentages ==
    [ none_none |-> <<0, 1>>, none_implication |-> <<0, 1>>, none_equivalence |-> <<0, 1>>,
      eventual_equivalence |-> <<0, 1>>, eventual_implication |-> <<0, 1>>,
      none_negated_equivalence |-> <<0, 1>>, eventual_any_existential |-> <<0, 1>>,
      direct_any_existential |-> <<0, 1>>, direct_none |-> <<0, 1>> ]

(***************************************************************************)
(* f64 comparisons of a ratio r = <<count, total>> with the literal h/100  *)
(***************************************************************************)
Lt(r, h) == r[1] * 100 < h * r[2]
Le(r, h) == r[1] * 100 <= h * r[2]
Gt(r, h) == r[1] * 100 > h * r[2]
Ge(r, h) == r[1] * 100 >= h * r[2]

(***************************************************************************)
(* CalculatedPercentages::new                                              *)
(***************************************************************************)

\* Incremented whose Eventual arm counts an Implication or Equivalence entry in
\* its own counter only, and every other existential type in the aggregate.
Incremented_eventual_exclusive(t, e) ==
    CASE t = "None" ->
            CASE e = "None" -> {"none_none"}
              [] e = "Implication" -> {"none_implication"}
              [] e = "Equivalence" -> {"none_equivalence"}
              [] e = "NegatedEquivalence" -> {"none_negated_equivalence"}
              [] OTHER -> {}
      [] t = "Eventual" ->
            CASE e = "Equivalence" -> {"eventual_equivalence"}
              [] e = "Implication" -> {"eventual_implication"}
              [] e = "None" -> {}
              [] OTHER -> {"eventual_any"}
      [] t = "Direct" ->
            IF e # "None" THEN {"direct_any"} ELSE {"direct_none"}

\* Incremented whose None arm counts a Nand or Or entry as an entry without
\* any relation.
Incremented_nand_or_as_none(t, e) ==
    CASE t = "None" ->
            CASE e = "Implication" -> {"none_implication"}
              [] e = "Equivalence" -> {"none_equivalence"}
              [] e = "NegatedEquivalence" -> {"none_negated_equivalence"}
              [] OTHER -> {"none_none"}
      [] t = "Eventual" ->
            (IF e # "None" THEN {"eventual_any"} ELSE {})
            \cup (CASE e = "Equivalence" -> {"eventual_equivalence"}
                    [] e = "Implication" -> {"eventual_implication"}
                    [] OTHER -> {})
      [] t = "Direct" ->
            IF e # "None" THEN {"direct_any"} ELSE {"direct_none"}

\* Incremented whose Direct arm breaks the entry out by existential subtype as
\* the Eventual arm does.
Incremented_direct_by_subtype(t, e) ==
    CASE t = "None" ->
            CASE e = "None" -> {"none_none"}
              [] e = "Implication" -> {"none_implication"}
              [] e = "Equivalence" -> {"none_equivalence"}
              [] e = "NegatedEquivalence" -> {"none_negated_equivalence"}
              [] OTHER -> {}
      [] t = "Eventual" ->
            (IF e # "None" THEN {"eventual_any"} ELSE {})
            \cup (CASE e = "Equivalence" -> {"eventual_equivalence"}
                    [] e = "Implication" -> {"eventual_implication"}
                    [] OTHER -> {})
      [] t = "Direct" ->
            (IF e # "None" THEN {"direct_any"} ELSE {"direct_none"})
            \cup (CASE e = "Equivalence" -> {"eventual_equivalence"}
                    [] e = "Implication" -> {"eventual_implication"}
                    [] OTHER -> {})

\* The counters one loop iteration increments for an entry of temporal type t
\* and existential type e.
Incremented(t, e) ==
    CASE t = "None" ->
            CASE e = "None" -> {"none_none"}
              [] e = "Implication" -> {"none_implication"}
              [] e = "Equivalence" -> {"none_equivalence"}
              [] e = "NegatedEquivalence" -> {"none_negated_equivalence"}
              [] OTHER -> {}
      [] t = "Eventual" ->
            (IF e # "None" THEN {"eventual_any"} ELSE {})
            \cup (CASE e = "Equivalence" -> {"eventual_equivalence"}
                    [] e = "Implication" -> {"eventual_implication"}
                    [] OTHER -> {})
      [] t = "Direct" ->
            IF e # "None" THEN {"direct_any"} ELSE {"direct_none"}

\* Ratios dividing by the number of entries that carry a relation, in place of
\* matrix.len().
Ratios_wrong_total(c, total_f) ==
    [ none_none |-> <<c.none_none, total_f - c.none_none>>,
      none_implication |-> <<c.none_implication, total_f - c.none_none>>,
      none_equivalence |-> <<c.none_equivalence, total_f - c.none_none>>,
      eventual_equivalence |-> <<c.eventual_equivalence, total_f - c.none_none>>,
      eventual_implication |-> <<c.eventual_implication, total_f - c.none_none>>,
      none_negated_equivalence |-> <<c.none_negated_equivalence, total_f - c.none_none>>,
      eventual_any_existential |-> <<c.eventual_any, total_f - c.none_none>>,
      direct_any_existential |-> <<c.direct_any, total_f - c.none_none>>,
      direct_none |-> <<c.direct_none, total_f - c.none_none>> ]

Ratios(c, total_f) ==
    [ none_none |-> <<c.none_none, total_f>>,
      none_implication |-> <<c.none_implication, total_f>>,
      none_equivalence |-> <<c.none_equivalence, total_f>>,
      eventual_equivalence |-> <<c.eventual_equivalence, total_f>>,
      eventual_implication |-> <<c.eventual_implication, total_f>>,
      none_negated_equivalence |-> <<c.none_negated_equivalence, total_f>>,
      eventual_any_existential |-> <<c.eventual_any, total_f>>,
      direct_any_existential |-> <<c.direct_any, total_f>>,
      direct_none |-> <<c.direct_none, total_f>> ]

(***************************************************************************)
(* Rules                                                                   *)
(***************************************************************************)
All(conds) == \A i \in DOMAIN conds : conds[i]

\* check_rule_u1 with a wrong none_none threshold (0.90 for 0.80).
check_rule_u1_wrong_threshold(p) ==
    Gt(p.none_none, 90) /\ Lt(p.eventual_any_existential, 10) /\ Lt(p.direct_any_existential, 10)

\* check_rule_u1 with none_none >= 0.80.
check_rule_u1_not_strict(p) ==
    Ge(p.none_none, 80) /\ Lt(p.eventual_any_existential, 10) /\ Lt(p.direct_any_existential, 10)

check_rule_u1(p) ==
    Gt(p.none_none, 80) /\ Lt(p.eventual_any_existential, 10) /\ Lt(p.direct_any_existential, 10)

check_rule_u2(p) == Gt(p.none_equivalence, 80)

RuleCheckResult(conds) == <<All(conds), conds>>

check_rule_s1(p) ==
    RuleCheckResult(<< Lt(p.none_none, 5), Lt(p.none_implication, 10),
                       Gt(p.eventual_equivalence, 10), Gt(p.eventual_implication, 40) >>)

\* check_rule_s2 with all four comparisons strict.
check_rule_s2_all_strict(p) ==
    RuleCheckResult(<< Lt(p.none_none, 5), Lt(p.none_implication, 15),
                       Gt(p.eventual_equivalence, 10), Gt(p.eventual_implication, 30) >>)

check_rule_s2(p) ==
    RuleCheckResult(<< Lt(p.none_none, 5), Le(p.none_implication, 15),
                       Ge(p.eventual_equivalence, 10), Gt(p.eventual_implication, 30) >>)

\* check_rule_s3 with the threshold 0.05 in place of 0.50.
check_rule_s3_low_threshold(p) ==
    RuleCheckResult(<< Gt(p.direct_none, 5) >>)

check_rule_s3(p) ==
    RuleCheckResult(<< Gt(p.direct_none, 50) >>)

check_rule_ss1(p) ==
    RuleCheckResult(<< Lt(p.none_none, 35), Gt(p.none_implication, 30),
                       Lt(p.eventual_equivalence, 5), Lt(p.eventual_implication, 20) >>)

\* check_rule_ss2 asking for a low share of eventual equivalence, as SS1 does.
check_rule_ss2_eeq_below(p) ==
    RuleCheckResult(<< Lt(p.none_none, 25), Gt(p.none_implication, 1),
                       Lt(p.eventual_equivalence, 10), Lt(p.eventual_implication, 40) >>)

check_rule_ss2(p) ==
    RuleCheckResult(<< Lt(p.none_none, 25), Gt(p.none_implication, 1),
                       Gt(p.eventual_equivalence, 10), Lt(p.eventual_implication, 40) >>)

\* check_rule_ls1 asking for none_none > 0.50, as LS2 does.
check_rule_ls1_high_threshold(p) ==
    RuleCheckResult(<< Gt(p.none_none, 50), Lt(p.none_implication, 35),
                       Lt(p.eventual_equivalence, 10), Lt(p.eventual_implication, 30) >>)

check_rule_ls1(p) ==
    RuleCheckResult(<< Gt(p.none_none, 20), Lt(p.none_implication, 35),
                       Lt(p.eventual_equivalence, 10), Lt(p.eventual_implication, 30) >>)

check_rule_ls2(p) ==
    RuleCheckResult(<< Gt(p.none_none, 50), Lt(p.none_implication, 10),
                       Lt(p.eventual_equivalence, 5), Lt(p.eventual_implication, 25) >>)

\* check_rule_bs1 with the thresholds 0.05 and 0.06 in place of 0.50 and 0.60.
check_rule_bs1_low_thresholds(p) ==
    RuleCheckResult(<< Lt(p.none_none, 10), Gt(p.none_negated_equivalence, 5),
                       Gt(p.eventual_implication, 6) >>)

check_rule_bs1(p) ==
    RuleCheckResult(<< Lt(p.none_none, 10), Gt(p.none_negated_equivalence, 50),
                       Gt(p.eventual_implication, 60) >>)

check_rule_bs2(p) ==
    RuleCheckResult(<< Lt(p.none_none, 20), Gt(p.none_implication, 40) >>)

\* check_rule_bl1 with both comparisons turned round.
check_rule_bl1_turned_round(p) ==
    RuleCheckResult(<< Lt(p.none_none, 60), Gt(p.none_implication, 30) >>)

check_rule_bl1(p) ==
    RuleCheckResult(<< Gt(p.none_none, 60), Lt(p.none_implication, 30) >>)

\* <<matched_categories, rule_results>>
apply_primary_rules(p) ==
    LET s1_res == check_rule_s1(p)
        s2_res == check_rule_s2(p)
        s3_res == check_rule_s3(p)
        ss1_res == check_rule_ss1(p)
        ss2_res == check_rule_ss2(p)
        ls1_res == check_rule_ls1(p)
        ls2_res == check_rule_ls2(p)
    IN  << (IF s1_res[1] \/ s2_res[1] \/ s3_res[1] THEN {"Structured"} ELSE {})
             \cup (IF ss1_res[1] \/ ss2_res[1] THEN {"SemiStructured"} ELSE {})
             \cup (IF ls1_res[1] \/ ls2_res[1] THEN {"LooselyStructured"} ELSE {}),
           << s1_res, s2_res, s3_res, ss1_res, ss2_res, ls1_res, ls2_res >> >>

\* apply_secondary_rules without the last rule_results.push(bl1_res).
apply_secondary_rules_missing_push(p) ==
    LET bs1_res == check_rule_bs1(p)
        bs2_res == check_rule_bs2(p)
        bl1_res == check_rule_bl1(p)
    IN  << (IF bs1_res[1] THEN {"Structured"} ELSE {})
             \cup (IF bs2_res[1] THEN {"SemiStructured"} ELSE {})
             \cup (IF bl1_res[1] THEN {"LooselyStructured"} ELSE {}),
           << bs1_res, bs2_res >> >>

apply_secondary_rules(p) ==
    LET bs1_res == check_rule_bs1(p)
        bs2_res == check_rule_bs2(p)
        bl1_res == check_rule_bl1(p)
    IN  << (IF bs1_res[1] THEN {"Structured"} ELSE {})
             \cup (IF bs2_res[1] THEN {"SemiStructured"} ELSE {})
             \cup (IF bl1_res[1] THEN {"LooselyStructured"} ELSE {}),
           << bs1_res, bs2_res, bl1_res >> >>

category_to_classification(category) == << category >>

(***************************************************************************)
(* calculate_by_most_indicators                                            *)
(***************************************************************************)
RECURSIVE count_true_conditions(_)
count_true_conditions(bools) ==
    IF bools = <<>> THEN 0
    ELSE (IF Head(bools) THEN 1 ELSE 0) + count_true_conditions(Tail(bools))

\* An indexed read slice[i] of the code aborts when i is out of range
\* (the code's indices start at 0, the model's at 1).
IndexInRange(slice, i) == i + 1 <= Len(slice)

\* Every indexed read of calculate_by_most_indicators is in range.
IndicatorReadsInRange(primary_rule_check_results, secondary_rule_check_results) ==
    /\ \A i \in 0..6 : IndexInRange(primary_rule_check_results, i)
    /\ \A i \in 0..2 : IndexInRange(secondary_rule_check_results, i)

\* Scores without the doubling of the primary indicators.
Scores_unweighted(primary_rule_check_results, secondary_rule_check_results) ==
    LET s1_indicators == count_true_conditions(primary_rule_check_results[1][2])
        s2_indicators == count_true_conditions(primary_rule_check_results[2][2])
        s3_indicators == count_true_conditions(primary_rule_check_results[3][2])
        bs1_indicators == count_true_conditions(secondary_rule_check_results[1][2])
        ss1_indicators == count_true_conditions(primary_rule_check_results[4][2])
        ss2_indicators == count_true_conditions(primary_rule_check_results[5][2])
        bs2_indicators == count_true_conditions(secondary_rule_check_results[2][2])
        ls1_indicators == count_true_conditions(primary_rule_check_results[6][2])
        ls2_indicators == count_true_conditions(primary_rule_check_results[7][2])
        bl1_indicators == count_true_conditions(secondary_rule_check_results[3][2])
    IN  [ Structured |-> (s1_indicators + s2_indicators + s3_indicators) + bs1_indicators,
          SemiStructured |-> (ss1_indicators + ss2_indicators) + bs2_indicators,
          LooselyStructured |-> (ls1_indicators + ls2_indicators) + bl1_indicators ]

\* The scores array: [category |-> score]
Scores(primary_rule_check_results, secondary_rule_check_results) ==
    LET s1_indicators == count_true_conditions(primary_rule_check_results[1][2])
        s2_indicators == count_true_conditions(primary_rule_check_results[2][2])
        s3_indicators == count_true_conditions(primary_rule_check_results[3][2])
        bs1_indicators == count_true_conditions(secondary_rule_check_results[1][2])
        ss1_indicators == count_true_conditions(primary_rule_check_results[4][2])
        ss2_indicators == count_true_conditions(primary_rule_check_results[5][2])
        bs2_indicators == count_true_conditions(secondary_rule_check_results[2][2])
        ls1_indicators == count_true_conditions(primary_rule_check_results[6][2])
        ls2_indicators == count_true_conditions(primary_rule_check_results[7][2])
        bl1_indicators == count_true_conditions(secondary_rule_check_results[3][2])
    IN  [ Structured |-> (s1_indicators + s2_indicators + s3_indicators) * 2 + bs1_indicators,
          SemiStructured |-> (ss1_indicators + ss2_indicators) * 2 + bs2_indicators,
          LooselyStructured |-> (ls1_indicators + ls2_indicators) * 2 + bl1_indicators ]

MaxScore(scores) ==
    CHOOSE m \in { scores[c] : c \in RuleCategory } : \A c \in RuleCategory : scores[c] <= m

TopCategories(scores) == { c \in RuleCategory : scores[c] = MaxScore(scores) }

\* TopCategoriesResult without the `has_s && has_ls` branch.
TopCategoriesResult_missing_s_ls(top_categories) ==
    CASE Cardinality(top_categories) = 1 ->
            category_to_classification(CHOOSE c \in top_categories : TRUE)
      [] Cardinality(top_categories) = 2 ->
            LET has_s == "Structured" \in top_categories
                has_ss == "SemiStructured" \in top_categories
                has_ls == "LooselyStructured" \in top_categories
            IN  IF has_s /\ has_ss THEN <<"StructuredSemiStructured">>
                ELSE IF has_ss /\ has_ls THEN <<"SemiStructuredLooselyStructured">>
                ELSE <<"Error", "Unexpected combination in top categories (2).">>
      [] Cardinality(top_categories) = 3 -> <<"SemiStructured">>
      [] OTHER -> <<"Error", "No category had a top score in most indicators (or internal error).">>

TopCategoriesResult(top_categories) ==
    CASE Cardinality(top_categories) = 1 ->
            category_to_classification(CHOOSE c \in top_categories : TRUE)
      [] Cardinality(top_categories) = 2 ->
            LET has_s == "Structured" \in top_categories
                has_ss == "SemiStructured" \in top_categories
                has_ls == "LooselyStructured" \in top_categories
            IN  IF has_s /\ has_ss THEN <<"StructuredSemiStructured">>
                ELSE IF has_ss /\ has_ls THEN <<"SemiStructuredLooselyStructured">>
                ELSE IF has_s /\ has_ls THEN <<"SemiStructured">>
                ELSE <<"Error", "Unexpected combination in top categories (2).">>
      [] Cardinality(top_categories) = 3 -> <<"SemiStructured">>
      [] OTHER -> <<"Error", "No category had a top score in most indicators (or internal error).">>

\* calculate_by_most_indicators without the `max_score == 0` return.
calculate_by_most_indicators_no_zero_check(primary_rule_check_results, secondary_rule_check_results) ==
    TopCategoriesResult(TopCategories(Scores(primary_rule_check_results,
                                             secondary_rule_check_results)))

calculate_by_most_indicators(primary_rule_check_results, secondary_rule_check_results) ==
    LET scores == Scores(primary_rule_check_results, secondary_rule_check_results)
    IN  IF MaxScore(scores) = 0
        THEN <<"Error", "No category had significant indicators.">>
        ELSE TopCategoriesResult(TopCategories(scores))

(***************************************************************************)
(* impl Display for Classification: the pieces written by write!           *)
(***************************************************************************)
Display(c) ==
    CASE c = <<"Structured">> -> <<"Structured">>
      [] c = <<"SemiStructured">> -> <<"Semi-Structured">>
      [] c = <<"LooselyStructured">> -> <<"Loosely Structured">>
      [] c = <<"StructuredSemiStructured">> -> <<"Structured / Semi-Structured">>
      [] c = <<"SemiStructuredLooselyStructured">> -> <<"Semi-Structured / Loosely Structured">>
      [] c = <<"Unstructured">> -> <<"Unstructured">>
      [] OTHER -> <<"Error in classification: ", c[2]>>

(***************************************************************************)
(* main.rs: Args, AppState, AppError, parse_threshold_str                  *)
(***************************************************************************)

\* An f64 in tenths, or NaN.
F64(tenths) == [ nan |-> FALSE, tenths |-> tenths ]
NaN == [ nan |-> TRUE, tenths |-> 0 ]

\* (0.0..=1.0).contains(&val): 0.0 <= val && val <= 1.0, false for NaN.
InUnitRange(val) == ~val.nan /\ 0 <= val.tenths /\ val.tenths <= 10

\* The texts a threshold field is given.
ThresholdStrings == { "1.0", "1.5", "-0.5", "NaN", "" }

\* s.parse::<f64>(): <<value>> for Ok(value), <<>> for Err.
ParseF64(s) ==
    CASE s = "1.0" -> << F64(10) >>
      [] s = "1.5" -> << F64(15) >>
      [] s = "-0.5" -> << F64(0 - 5) >>
      [] s = "NaN" -> << NaN >>
      [] OTHER -> <<>>

\* parse_threshold_str without the range filter.
parse_threshold_str_unfiltered(s) == ParseF64(s)

\* <<value>> for Some(value), <<>> for None.
parse_threshold_str(s) ==
    LET parsed == ParseF64(s)
    IN  IF parsed # <<>> /\ InUnitRange(parsed[1]) THEN parsed ELSE <<>>

\* impl Default for AppState.  An Option is <<>> for None and <<x>> for Some(x);
\* a Result is <<"Ok", x>> or <<"Err", e>>; an AppError is <<variant, message>>.
AppStateDefault ==
    [ file_name |-> <<>>,
      file_content |-> <<>>,
      existential_threshold_str |-> "1.0",
      temporal_threshold_str |-> "1.0",
      classification_result |-> <<>>,
      is_processing |-> FALSE ]

\* Args when the program is not started from a command line.
ArgsDefault ==
    [ file_path |-> <<>>, print_ratios |-> FALSE,
      temporal_threshold |-> F64(10), existential_threshold |-> F64(10) ]

\* main has not been entered.
AppNotStarted ==
    /\ args = ArgsDefault
    /\ main_pc = "none"
    /\ app_state = AppStateDefault
    /\ pending_loads = <<>>
    /\ task = <<>>
    /\ started = <<>>
    /\ last_task = <<>>
    /\ events = 0

(***************************************************************************)
(* State machine: main (command line) -> classify_matrix -> println        *)
(***************************************************************************)
\* Spec draws matrix.len() and then each entry as the loop reaches it; it keeps
\* no matrix.
Init ==
    /\ total_entries \in 0..MaxEntries
    /\ visited = 0
    /\ counts = ZeroCounts
    /\ percentages = DefaultPercentages
    /\ primary_matched_categories_set = {}
    /\ primary_rule_results_for_indicators = <<>>
    /\ secondary_matched_categories_set = {}
    /\ secondary_rule_results_for_indicators = <<>>
    /\ result = <<>>
    /\ return_site = "none"
    /\ stdout = <<>>
    /\ stderr = <<>>
    /\ pc = "new"
    /\ matrix = EmptyMatrix
    /\ unvisited = EmptyMatrix
    /\ call = 1
    /\ first_result = <<>>
    /\ first_rule_results = <<>>
    /\ AppNotStarted

Return(c, site) ==
    /\ result' = c
    /\ return_site' = site
    /\ pc' = "returned"

\* CalculatedPercentages::new on the empty matrix, and the Err arm of classify_matrix.
NewEmpty ==
    /\ pc = "new"
    /\ total_entries = 0
    /\ Return(<<"Error", "Input matrix is empty">>, "empty")
    /\ UNCHANGED <<total_entries, visited, counts, percentages,
                   primary_matched_categories_set, primary_rule_results_for_indicators,
                   secondary_matched_categories_set, secondary_rule_results_for_indicators,
                   stdout, stderr>>
    /\ UNCHANGED matrix_vars
    /\ UNCHANGED app_vars

\* One iteration of `for dependency_obj in matrix.values()` on an entry whose
\* temporal type is t and existential type is e.
VisitEntry(t, e) ==
    /\ pc = "new"
    /\ visited < total_entries
    /\ visited' = visited + 1
    /\ counts' = [ c \in CounterNames |->
                     IF c \in Incremented(t, e) THEN counts[c] + 1 ELSE counts[c] ]
    /\ UNCHANGED <<total_entries, percentages,
                   primary_matched_categories_set, primary_rule_results_for_indicators,
                   secondary_matched_categories_set, secondary_rule_results_for_indicators,
                   result, return_site, stdout, stderr, pc>>
    /\ UNCHANGED matrix_vars
    /\ UNCHANGED app_vars

\* NewOk without the `matrix.is_empty()` return before it.
NewOk_no_empty_check ==
    /\ pc = "new"
    /\ visited = total_entries
    /\ percentages' = Ratios(counts, total_entries)
    /\ pc' = "unstructured"
    /\ UNCHANGED <<total_entries, visited, counts,
                   primary_matched_categories_set, primary_rule_results_for_indicators,
                   secondary_matched_categories_set, secondary_rule_results_for_indicators,
                   result, return_site, stdout, stderr>>
    /\ UNCHANGED matrix_vars
    /\ UNCHANGED app_vars

\* End of the loop: the Ok(Self { .. }) of CalculatedPercentages::new.
NewOk ==
    /\ pc = "new"
    /\ total_entries > 0
    /\ visited = total_entries
    /\ percentages' = Ratios(counts, total_entries)
    /\ pc' = "unstructured"
    /\ UNCHANGED <<total_entries, visited, counts,
                   primary_matched_categories_set, primary_rule_results_for_indicators,
                   secondary_matched_categories_set, secondary_rule_results_for_indicators,
                   result, return_site, stdout, stderr>>
    /\ UNCHANGED matrix_vars
    /\ UNCHANGED app_vars

\* classify_matrix: the two short-circuit rules.
CheckUnstructured ==
    /\ pc = "unstructured"
    /\ IF check_rule_u1(percentages)
       THEN Return(<<"Unstructured">>, "u1")
       ELSE IF check_rule_u2(percentages)
       THEN Return(<<"Unstructured">>, "u2")
       ELSE /\ pc' = "primary"
            /\ UNCHANGED <<result, return_site>>
    /\ UNCHANGED <<total_entries, visited, counts, percentages,
                   primary_matched_categories_set, primary_rule_results_for_indicators,
                   secondary_matched_categories_set, secondary_rule_results_for_indicators,
                   stdout, stderr>>
    /\ UNCHANGED matrix_vars
    /\ UNCHANGED app_vars

\* ResolvePrimary whose `1 =>` arm does not return.
ResolvePrimary_single_falls_through(matched) ==
    CASE Cardinality(matched) <= 1 -> <<>>
      [] OTHER ->
            LET s_matched == "Structured" \in matched
                ss_matched == "SemiStructured" \in matched
                ls_matched == "LooselyStructured" \in matched
            IN  IF s_matched /\ ss_matched /\ ~ls_matched
                THEN << <<"StructuredSemiStructured">>, "primary_s_ss" >>
                ELSE IF ~s_matched /\ ss_matched /\ ls_matched
                THEN << <<"SemiStructuredLooselyStructured">>, "primary_ss_ls" >>
                ELSE <<>>

\* ResolvePrimary with the results of the two pair branches exchanged.
ResolvePrimary_pairs_exchanged(matched) ==
    CASE Cardinality(matched) = 0 -> <<>>
      [] Cardinality(matched) = 1 ->
            <<category_to_classification(CHOOSE c \in matched : TRUE), "primary_single">>
      [] OTHER ->
            LET s_matched == "Structured" \in matched
                ss_matched == "SemiStructured" \in matched
                ls_matched == "LooselyStructured" \in matched
            IN  IF s_matched /\ ss_matched /\ ~ls_matched
                THEN << <<"SemiStructuredLooselyStructured">>, "primary_s_ss" >>
                ELSE IF ~s_matched /\ ss_matched /\ ls_matched
                THEN << <<"StructuredSemiStructured">>, "primary_ss_ls" >>
                ELSE <<>>

\* classify_matrix: `match primary_matched_categories_set.len()`; <<>> stands
\* for "no return, go on to the secondary rules".
ResolvePrimary(matched) ==
    CASE Cardinality(matched) = 0 -> <<>>
      [] Cardinality(matched) = 1 ->
            <<category_to_classification(CHOOSE c \in matched : TRUE), "primary_single">>
      [] OTHER ->
            LET s_matched == "Structured" \in matched
                ss_matched == "SemiStructured" \in matched
                ls_matched == "LooselyStructured" \in matched
            IN  IF s_matched /\ ss_matched /\ ~ls_matched
                THEN << <<"StructuredSemiStructured">>, "primary_s_ss" >>
                ELSE IF ~s_matched /\ ss_matched /\ ls_matched
                THEN << <<"SemiStructuredLooselyStructured">>, "primary_ss_ls" >>
                ELSE <<>>

ApplyPrimary ==
    /\ pc = "primary"
    /\ LET applied == apply_primary_rules(percentages)
           resolved == ResolvePrimary(applied[1])
       IN  /\ primary_matched_categories_set' = applied[1]
           /\ primary_rule_results_for_indicators' = applied[2]
           /\ IF resolved # <<>>
              THEN Return(resolved[1], resolved[2])
              ELSE /\ pc' = "secondary"
                   /\ UNCHANGED <<result, return_site>>
    /\ UNCHANGED <<total_entries, visited, counts, percentages,
                   secondary_matched_categories_set, secondary_rule_results_for_indicators,
                   stdout, stderr>>
    /\ UNCHANGED matrix_vars
    /\ UNCHANGED app_vars

\* ResolveSecondary without the `primary_matched_categories_set.is_empty()` disjunct.
ResolveSecondary_no_is_empty(primary_matched, secondary_matched) ==
    IF /\ Cardinality(secondary_matched) = 1
       /\ Cardinality(primary_matched) > 1
    THEN <<category_to_classification(CHOOSE c \in secondary_matched : TRUE), "secondary_single">>
    ELSE <<>>

\* classify_matrix: `match secondary_matched_categories_set.len()`.
ResolveSecondary(primary_matched, secondary_matched) ==
    IF /\ Cardinality(secondary_matched) = 1
       /\ (primary_matched = {} \/ Cardinality(primary_matched) > 1)
    THEN <<category_to_classification(CHOOSE c \in secondary_matched : TRUE), "secondary_single">>
    ELSE <<>>

ApplySecondary ==
    /\ pc = "secondary"
    /\ LET applied == apply_secondary_rules(percentages)
           resolved == ResolveSecondary(primary_matched_categories_set, applied[1])
       IN  /\ secondary_matched_categories_set' = applied[1]
           /\ secondary_rule_results_for_indicators' = applied[2]
           /\ IF resolved # <<>>
              THEN Return(resolved[1], resolved[2])
              ELSE /\ pc' = "indicators"
                   /\ UNCHANGED <<result, return_site>>
    /\ UNCHANGED <<total_entries, visited, counts, percentages,
                   primary_matched_categories_set, primary_rule_results_for_indicators,
                   stdout, stderr>>
    /\ UNCHANGED matrix_vars
    /\ UNCHANGED app_vars

\* classify_matrix: the final call of calculate_by_most_indicators.  An
\* indexed read out of range is a panic.
MostIndicators ==
    /\ pc = "indicators"
    /\ IF IndicatorReadsInRange(primary_rule_results_for_indicators,
                                secondary_rule_results_for_indicators)
       THEN Return(calculate_by_most_indicators(primary_rule_results_for_indicators,
                                                secondary_rule_results_for_indicators),
                   "indicators")
       ELSE /\ pc' = "panic"
            /\ UNCHANGED <<result, return_site>>
    /\ UNCHANGED <<total_entries, visited, counts, percentages,
                   primary_matched_categories_set, primary_rule_results_for_indicators,
                   secondary_matched_categories_set, secondary_rule_results_for_indicators,
                   stdout, stderr>>
    /\ UNCHANGED matrix_vars
    /\ UNCHANGED app_vars

\* PrintResult that formats the classification with {:?} (the variant name)
\* in place of {}.
PrintResult_debug_format(print_ratios) ==
    /\ pc = "returned"
    /\ LET line == <<"Classification Result: ">> \o result
       IN  IF ~print_ratios
           THEN /\ stdout' = stdout \o <<line>>
                /\ UNCHANGED stderr
           ELSE IF total_entries = 0
           THEN /\ stdout' = stdout \o <<line>>
                /\ stderr' = stderr \o << <<"Error calculating percentages: ",
                                            "Input matrix is empty">> >>
           ELSE /\ stdout' = stdout \o << line, <<"", "Calculated Percentages:">>,
                                          <<ToString(Ratios(counts, total_entries))>> >>
                /\ UNCHANGED stderr
    /\ pc' = "printed"
    /\ UNCHANGED <<total_entries, visited, counts, percentages,
                   primary_matched_categories_set, primary_rule_results_for_indicators,
                   secondary_matched_categories_set, secondary_rule_results_for_indicators,
                   result, return_site>>
    /\ UNCHANGED matrix_vars
    /\ UNCHANGED app_vars

\* main: println!("Classification Result: {}", ..) and, with --print-ratios,
\* the second CalculatedPercentages::new(&matrix) and its output.
PrintResult(print_ratios) ==
    /\ pc = "returned"
    /\ LET line == <<"Classification Result: ">> \o Display(result)
       IN  IF ~print_ratios
           THEN /\ stdout' = stdout \o <<line>>
                /\ UNCHANGED stderr
           ELSE IF total_entries = 0
           THEN /\ stdout' = stdout \o <<line>>
                /\ stderr' = stderr \o << <<"Error calculating percentages: ",
                                            "Input matrix is empty">> >>
           ELSE /\ stdout' = stdout \o << line, <<"", "Calculated Percentages:">>,
                                          <<ToString(Ratios(counts, total_entries))>> >>
                /\ UNCHANGED stderr
    /\ pc' = "printed"
    /\ UNCHANGED <<total_entries, visited, counts, percentages,
                   primary_matched_categories_set, primary_rule_results_for_indicators,
                   secondary_matched_categories_set, secondary_rule_results_for_indicators,
                   result, return_site>>
    /\ UNCHANGED matrix_vars
    /\ UNCHANGED app_vars

Next ==
    \/ NewEmpty
    \/ \E t \in TemporalType, e \in ExistentialType : VisitEntry(t, e)
    \/ NewOk
    \/ CheckUnstructured
    \/ ApplyPrimary
    \/ ApplySecondary
    \/ MostIndicators
    \/ \E print_ratios \in BOOLEAN : PrintResult(print_ratios)

Spec == Init /\ [][Next]_vars

(***************************************************************************)
(* calculate_by_most_indicators as a function of its two slices: the rule  *)
(* results are drawn freely, each rule with its own number of              *)
(* sub-conditions.  The function only counts the true sub-conditions of a  *)
(* rule, so a rule result with k of them is drawn as the one whose first k *)
(* sub-conditions are true.                                                *)
(***************************************************************************)
DrawnResult(arity, k) == RuleCheckResult([ i \in 1..arity |-> i <= k ])

DrawnCounts(arity) == { k \in 0..arity : k <= MaxTrueConditions }

InitIndicators ==
    /\ total_entries = 0
    /\ visited = 0
    /\ counts = ZeroCounts
    /\ percentages = DefaultPercentages
    /\ primary_matched_categories_set = {}
    /\ secondary_matched_categories_set = {}
    /\ \E s1 \in DrawnCounts(4), s2 \in DrawnCounts(4), s3 \in DrawnCounts(1),
          ss1 \in DrawnCounts(4), ss2 \in DrawnCounts(4),
          ls1 \in DrawnCounts(4), ls2 \in DrawnCounts(4) :
            primary_rule_results_for_indicators =
                << DrawnResult(4, s1), DrawnResult(4, s2), DrawnResult(1, s3),
                   DrawnResult(4, ss1), DrawnResult(4, ss2),
                   DrawnResult(4, ls1), DrawnResult(4, ls2) >>
    /\ \E bs1 \in DrawnCounts(3), bs2 \in DrawnCounts(2), bl1 \in DrawnCounts(2) :
            secondary_rule_results_for_indicators =
                << DrawnResult(3, bs1), DrawnResult(2, bs2), DrawnResult(2, bl1) >>
    /\ result = <<>>
    /\ return_site = "none"
    /\ stdout = <<>>
    /\ stderr = <<>>
    /\ pc = "indicators"
    /\ matrix = EmptyMatrix
    /\ unvisited = EmptyMatrix
    /\ call = 1
    /\ first_result = <<>>
    /\ first_rule_results = <<>>
    /\ AppNotStarted

NextIndicators == MostIndicators

SpecIndicators == InitIndicators /\ [][NextIndicators]_vars

(***************************************************************************)
(* classify_matrix on a matrix that is drawn whole.  The matrix is the bag *)
(* of its values (the keys are never read); matrix.values() yields them in *)
(* an order the HashMap chooses, so the loop takes any unvisited value.    *)
(* After the first return classify_matrix is called again on the same      *)
(* matrix, as main does with CalculatedPercentages::new for --print-ratios *)
(* and as every test and every user action does.                           *)
(***************************************************************************)
RECURSIVE SumOver(_, _)
SumOver(bag, kinds) ==
    IF kinds = {} THEN 0
    ELSE LET k == CHOOSE x \in kinds : TRUE
         IN  bag[k] + SumOver(bag, kinds \ {k})

\* matrix.len()
BagSize(bag) == SumOver(bag, EntryKind)

\* The bag of the values listed in s.
BagOf(s) == [ k \in EntryKind |-> Cardinality({ i \in DOMAIN s : s[i] = k }) ]

InitMatrix ==
    /\ matrix \in { BagOf(s) : s \in UNION { [1..n -> EntryKind] : n \in 0..MaxMatrixEntries } }
    /\ unvisited = matrix
    /\ total_entries = BagSize(matrix)
    /\ call = 1
    /\ first_result = <<>>
    /\ first_rule_results = <<>>
    /\ AppNotStarted
    /\ visited = 0
    /\ counts = ZeroCounts
    /\ percentages = DefaultPercentages
    /\ primary_matched_categories_set = {}
    /\ primary_rule_results_for_indicators = <<>>
    /\ secondary_matched_categories_set = {}
    /\ secondary_rule_results_for_indicators = <<>>
    /\ result = <<>>
    /\ return_site = "none"
    /\ stdout = <<>>
    /\ stderr = <<>>
    /\ pc = "new"

\* VisitStored whose loop ends (`break`) at an entry without temporal relation
\* whose existential type is Nand or Or.
VisitStored_break_at_uncounted(t, e) ==
    /\ pc = "new"
    /\ unvisited[<<t, e>>] > 0
    /\ IF t = "None" /\ e \in {"Nand", "Or"}
       THEN /\ unvisited' = EmptyMatrix
            /\ visited' = total_entries
            /\ UNCHANGED counts
       ELSE /\ unvisited' = [ unvisited EXCEPT ![<<t, e>>] = @ - 1 ]
            /\ visited' = visited + 1
            /\ counts' = [ c \in CounterNames |->
                             IF c \in Incremented(t, e) THEN counts[c] + 1 ELSE counts[c] ]
    /\ UNCHANGED <<total_entries, percentages,
                   primary_matched_categories_set, primary_rule_results_for_indicators,
                   secondary_matched_categories_set, secondary_rule_results_for_indicators,
                   result, return_site, stdout, stderr, pc,
                   matrix, call, first_result, first_rule_results>>
    /\ UNCHANGED app_vars

\* One iteration of `for dependency_obj in matrix.values()`: the iterator yields
\* an unvisited value, of temporal type t and existential type e.
VisitStored(t, e) ==
    /\ pc = "new"
    /\ unvisited[<<t, e>>] > 0
    /\ unvisited' = [ unvisited EXCEPT ![<<t, e>>] = @ - 1 ]
    /\ visited' = visited + 1
    /\ counts' = [ c \in CounterNames |->
                     IF c \in Incremented(t, e) THEN counts[c] + 1 ELSE counts[c] ]
    /\ UNCHANGED <<total_entries, percentages,
                   primary_matched_categories_set, primary_rule_results_for_indicators,
                   secondary_matched_categories_set, secondary_rule_results_for_indicators,
                   result, return_site, stdout, stderr, pc,
                   matrix, call, first_result, first_rule_results>>
    /\ UNCHANGED app_vars

\* SecondCall whose counters outlive the call (as a static would).
SecondCall_counters_kept ==
    /\ pc = "returned"
    /\ call = 1
    /\ call' = 2
    /\ first_result' = result
    /\ first_rule_results' = <<primary_rule_results_for_indicators,
                               secondary_rule_results_for_indicators>>
    /\ unvisited' = matrix
    /\ visited' = 0
    /\ percentages' = DefaultPercentages
    /\ primary_matched_categories_set' = {}
    /\ primary_rule_results_for_indicators' = <<>>
    /\ secondary_matched_categories_set' = {}
    /\ secondary_rule_results_for_indicators' = <<>>
    /\ result' = <<>>
    /\ return_site' = "none"
    /\ pc' = "new"
    /\ UNCHANGED <<total_entries, counts, matrix, stdout, stderr>>
    /\ UNCHANGED app_vars

\* The caller keeps the value returned and calls classify_matrix on the same
\* matrix again: every local of classify_matrix and of CalculatedPercentages::new
\* is created anew, and matrix.values() starts a new iteration.
SecondCall ==
    /\ pc = "returned"
    /\ call = 1
    /\ call' = 2
    /\ first_result' = result
    /\ first_rule_results' = <<primary_rule_results_for_indicators,
                               secondary_rule_results_for_indicators>>
    /\ unvisited' = matrix
    /\ visited' = 0
    /\ counts' = ZeroCounts
    /\ percentages' = DefaultPercentages
    /\ primary_matched_categories_set' = {}
    /\ primary_rule_results_for_indicators' = <<>>
    /\ secondary_matched_categories_set' = {}
    /\ secondary_rule_results_for_indicators' = <<>>
    /\ result' = <<>>
    /\ return_site' = "none"
    /\ pc' = "new"
    /\ UNCHANGED <<total_entries, matrix, stdout, stderr>>
    /\ UNCHANGED app_vars

NextMatrix ==
    \/ NewEmpty
    \/ \E t \in TemporalType, e \in ExistentialType : VisitStored(t, e)
    \/ NewOk
    \/ CheckUnstructured
    \/ ApplyPrimary
    \/ ApplySecondary
    \/ MostIndicators
    \/ SecondCall

SpecMatrix == InitMatrix /\ [][NextMatrix]_vars

(***************************************************************************)
(* classify_matrix on the matrices of 100 entries that the test helper     *)
(* build_detailed_matrix_from_counts_array builds from a counts array      *)
(* [nn, ni, neq, nneq, dn, di, deq, en, ei, eeq]: the arrays of the tests, *)
(* the arrays on a grid of the six counts the ten rules read, and the      *)
(* arrays on the grid that share the none_none count of test_log16.        *)
(* CalculatedPercentages::new is one step here.                            *)
(***************************************************************************)

\* "for a total of 100 entries"
HundredEntries == 100

build_detailed_matrix_from_counts_array(cs) ==
    [ k \in EntryKind |->
        CASE k = <<"None", "None">> -> cs[1]
          [] k = <<"None", "Implication">> -> cs[2]
          [] k = <<"None", "Equivalence">> -> cs[3]
          [] k = <<"None", "NegatedEquivalence">> -> cs[4]
          [] k = <<"Direct", "None">> -> cs[5]
          [] k = <<"Direct", "Implication">> -> cs[6]
          [] k = <<"Direct", "Equivalence">> -> cs[7]
          [] k = <<"Eventual", "None">> -> cs[8]
          [] k = <<"Eventual", "Implication">> -> cs[9]
          [] k = <<"Eventual", "Equivalence">> -> cs[10]
          [] OTHER -> 0 ]

\* The counts arrays of the tests, test_empty_matrix first.
TestCounts ==
    { <<0, 0, 0, 0, 0, 0, 0, 0, 0, 0>>,
      <<81, 0, 0, 0, 5, 0, 0, 5, 0, 0>>,
      <<0, 0, 81, 0, 0, 0, 0, 0, 0, 19>>,
      <<4, 9, 0, 0, 35, 0, 0, 0, 41, 11>>,
      <<19, 41, 0, 0, 0, 0, 0, 0, 0, 40>>,
      <<0, 0, 7, 13, 0, 13, 7, 0, 47, 13>>,
      <<0, 0, 7, 7, 0, 13, 0, 0, 40, 33>>,
      <<0, 0, 0, 27, 53, 0, 0, 7, 13, 0>>,
      <<0, 0, 100, 0, 0, 0, 0, 0, 0, 0>>,
      <<0, 28, 5, 0, 0, 0, 10, 0, 0, 57>>,
      <<13, 47, 13, 7, 0, 13, 7, 0, 0, 0>>,
      <<6, 21, 11, 3, 0, 11, 6, 0, 17, 25>>,
      <<5, 19, 5, 0, 0, 0, 5, 0, 28, 38>>,
      <<60, 7, 7, 13, 0, 0, 0, 0, 13, 0>>,
      <<23, 14, 0, 14, 0, 10, 0, 10, 24, 5>>,
      <<66, 7, 7, 0, 0, 0, 0, 0, 20, 0>>,
      <<0, 0, 6, 35, 3, 14, 0, 6, 25, 11>>,
      <<22, 2, 2, 16, 0, 0, 0, 15, 30, 13>>,
      <<33, 33, 0, 17, 0, 0, 0, 0, 17, 0>>,
      <<0, 0, 8, 8, 0, 11, 3, 11, 44, 15>>,
      <<80, 0, 10, 0, 0, 0, 0, 10, 0, 0>>,
      <<14, 33, 3, 0, 0, 0, 3, 0, 22, 25>>,
      <<0, 20, 20, 0, 0, 0, 0, 10, 40, 10>>,
      <<0, 20, 20, 10, 0, 0, 0, 0, 40, 10>> }

\* The counts array of test_log16_looselystructured.
Log16Counts == <<80, 0, 10, 0, 0, 0, 0, 10, 0, 0>>

\* The multiples of GridStep that leave at least 0 of `rest` entries.
Grid(rest) == { v \in 0..rest : v % GridStep = 0 }

\* The counts of Grid(rest) that are zero or at least half of the entries: the
\* two counts that are only compared with 0.50.
GridHalf(rest) == { v \in Grid(rest) : v = 0 \/ 2 * v >= HundredEntries }

\* The counters after the loop over all of matrix.values().
CountsOfMatrix(bag) ==
    [ c \in CounterNames |->
        SumOver(bag, { k \in EntryKind : c \in Incremented(k[1], k[2]) }) ]

InitWith(cs) ==
    /\ matrix = build_detailed_matrix_from_counts_array(cs)
    /\ unvisited = matrix
    /\ total_entries = BagSize(matrix)
    /\ call = 1
    /\ first_result = <<>>
    /\ first_rule_results = <<>>
    /\ AppNotStarted
    /\ visited = 0
    /\ counts = ZeroCounts
    /\ percentages = DefaultPercentages
    /\ primary_matched_categories_set = {}
    /\ primary_rule_results_for_indicators = <<>>
    /\ secondary_matched_categories_set = {}
    /\ secondary_rule_results_for_indicators = <<>>
    /\ result = <<>>
    /\ return_site = "none"
    /\ stdout = <<>>
    /\ stderr = <<>>
    /\ pc = "new"

InitHundred ==
    \/ \E cs \in TestCounts : InitWith(cs)
    \/ \E nn \in Grid(HundredEntries) :
       \E ni \in Grid(HundredEntries - nn) \cup { v \in {1} : v <= HundredEntries - nn } :
       \E nneq \in GridHalf(HundredEntries - nn - ni) :
       \E dn \in GridHalf(HundredEntries - nn - ni - nneq) :
       \E ei \in Grid(HundredEntries - nn - ni - nneq - dn) :
       \E eeq \in Grid(HundredEntries - nn - ni - nneq - dn - ei) :
           InitWith(<<nn, ni, 0, nneq, dn, 0, 0,
                      HundredEntries - nn - ni - nneq - dn - ei - eeq, ei, eeq>>)
    \/ LET nn == Log16Counts[1]
       IN  \E ni \in Grid(HundredEntries - nn) :
           \E neq \in Grid(HundredEntries - nn - ni) :
           \E nneq \in Grid(HundredEntries - nn - ni - neq) :
           \E dn \in Grid(HundredEntries - nn - ni - neq - nneq) :
           \E di \in Grid(HundredEntries - nn - ni - neq - nneq - dn) :
           \E deq \in Grid(HundredEntries - nn - ni - neq - nneq - dn - di) :
           \E ei \in Grid(HundredEntries - nn - ni - neq - nneq - dn - di - deq) :
           \E eeq \in Grid(HundredEntries - nn - ni - neq - nneq - dn - di - deq - ei) :
               InitWith(<<nn, ni, neq, nneq, dn, di, deq,
                          HundredEntries - nn - ni - neq - nneq - dn - di - deq - ei - eeq,
                          ei, eeq>>)

\* CalculatedPercentages::new on a non-empty matrix, from the counters at zero
\* to the nine ratios.
NewFromMatrix ==
    /\ pc = "new"
    /\ total_entries > 0
    /\ visited' = total_entries
    /\ unvisited' = EmptyMatrix
    /\ counts' = CountsOfMatrix(matrix)
    /\ percentages' = Ratios(counts', total_entries)
    /\ pc' = "unstructured"
    /\ UNCHANGED <<total_entries,
                   primary_matched_categories_set, primary_rule_results_for_indicators,
                   secondary_matched_categories_set, secondary_rule_results_for_indicators,
                   result, return_site, stdout, stderr,
                   matrix, call, first_result, first_rule_results>>
    /\ UNCHANGED app_vars

NextHundred ==
    \/ NewEmpty
    \/ NewFromMatrix
    \/ CheckUnstructured
    \/ ApplyPrimary
    \/ ApplySecondary
    \/ MostIndicators

SpecHundred == InitHundred /\ [][NextHundred]_vars

(***************************************************************************)
(* main and the App component.  parse_into_traces and                      *)
(* generate_dependency_matrix are outside this development: a call of the  *)
(* first draws its outcome, a call of the second draws the matrix (command *)
(* line) or what classify_matrix returns on it (App).                      *)
(* The App is re-rendered after every app_state_handle.set, before the     *)
(* browser delivers the next event, so a callback of the page reads the    *)
(* current AppState; the dispatch closures kept by a FileReader's onload   *)
(* and by a spawned future read the AppState of the render that made them. *)
(* A future given to spawn_local runs in a microtask, before the next      *)
(* event.                                                                  *)
(***************************************************************************)

\* The threshold values of the command line.
ArgThresholds == { F64(10), F64(15), F64(0 - 5), NaN }

\* The texts read from a selected file.
FileContents == { "not xes", "log without traces", "log" }

\* parse_into_traces(None, Some(&content)): Err, Ok of no traces, Ok of traces.
ParseOutcome(content) ==
    CASE content = "not xes" -> "Err"
      [] content = "log without traces" -> "Empty"
      [] OTHER -> "Traces"

\* dispatch whose ProcessLog arm leaves is_processing alone.
dispatch_process_log_without_flag(state, msg) ==
    CASE msg[1] = "FileSelected" ->
            [ state EXCEPT !.file_name = msg[2],
                           !.file_content = <<>>,
                           !.classification_result = <<>> ]
      [] msg[1] = "FileLoaded" ->
            IF msg[2][1] = "Ok"
            THEN [ state EXCEPT !.file_content = << msg[2][2] >> ]
            ELSE [ state EXCEPT !.file_content = <<>>,
                                !.classification_result =
                                    << <<"Err", <<"FileReadError", msg[2][2]>> >> >> ]
      [] msg[1] = "ExistentialThresholdChanged" ->
            [ state EXCEPT !.existential_threshold_str = msg[2] ]
      [] msg[1] = "TemporalThresholdChanged" ->
            [ state EXCEPT !.temporal_threshold_str = msg[2] ]
      [] msg[1] = "ProcessLog" ->
            [ state EXCEPT !.classification_result = <<>> ]
      [] msg[1] = "SetClassificationResult" ->
            [ state EXCEPT !.classification_result = << msg[2] >>,
                           !.is_processing = FALSE ]

\* The closure `dispatch` called with msg, the handle it holds dereferencing
\* to state: the AppState given to app_state_handle.set.
dispatch(state, msg) ==
    CASE msg[1] = "FileSelected" ->
            [ state EXCEPT !.file_name = msg[2],
                           !.file_content = <<>>,
                           !.classification_result = <<>> ]
      [] msg[1] = "FileLoaded" ->
            IF msg[2][1] = "Ok"
            THEN [ state EXCEPT !.file_content = << msg[2][2] >> ]
            ELSE [ state EXCEPT !.file_content = <<>>,
                                !.classification_result =
                                    << <<"Err", <<"FileReadError", msg[2][2]>> >> >> ]
      [] msg[1] = "ExistentialThresholdChanged" ->
            [ state EXCEPT !.existential_threshold_str = msg[2] ]
      [] msg[1] = "TemporalThresholdChanged" ->
            [ state EXCEPT !.temporal_threshold_str = msg[2] ]
      [] msg[1] = "ProcessLog" ->
            [ state EXCEPT !.is_processing = TRUE,
                           !.classification_result = <<>> ]
      [] msg[1] = "SetClassificationResult" ->
            [ state EXCEPT !.classification_result = << msg[2] >>,
                           !.is_processing = FALSE ]

\* classification_task_result whose match has no arm for Error.
classification_task_result_error_as_ok(outcome, c) ==
    CASE outcome = "Err" -> <<"Err", <<"XesParseError", "parse error">> >>
      [] outcome = "Empty" -> <<"Err", <<"XesParseError", "No traces found in log.">> >>
      [] OTHER -> <<"Ok", c>>

\* The value of the async block of on_process_log: outcome is what
\* parse_into_traces gave and c what classify_matrix returned, when called.
classification_task_result(outcome, c) ==
    CASE outcome = "Err" -> <<"Err", <<"XesParseError", "parse error">> >>
      [] outcome = "Empty" -> <<"Err", <<"XesParseError", "No traces found in log.">> >>
      [] OTHER -> IF c[1] = "Error"
                  THEN <<"Err", <<"ClassificationError", c[2]>> >>
                  ELSE <<"Ok", c>>

InitApp ==
    /\ args \in [ file_path : { <<>>, <<"log.xes">> }, print_ratios : BOOLEAN,
                  temporal_threshold : ArgThresholds,
                  existential_threshold : ArgThresholds ]
    /\ main_pc = "start"
    /\ app_state = AppStateDefault
    /\ pending_loads = <<>>
    /\ task = <<>>
    /\ started = <<>>
    /\ last_task = <<>>
    /\ events = 0
    /\ matrix = EmptyMatrix
    /\ unvisited = EmptyMatrix
    /\ call = 1
    /\ first_result = <<>>
    /\ first_rule_results = <<>>
    /\ total_entries = 0
    /\ visited = 0
    /\ counts = ZeroCounts
    /\ percentages = DefaultPercentages
    /\ primary_matched_categories_set = {}
    /\ primary_rule_results_for_indicators = <<>>
    /\ secondary_matched_categories_set = {}
    /\ secondary_rule_results_for_indicators = <<>>
    /\ result = <<>>
    /\ return_site = "none"
    /\ stdout = <<>>
    /\ stderr = <<>>
    /\ pc = "idle"

\* The variables of classify_matrix and of the output.
classify_vars ==
    <<total_entries, visited, counts, percentages,
      primary_matched_categories_set, primary_rule_results_for_indicators,
      secondary_matched_categories_set, secondary_rule_results_for_indicators,
      result, return_site, pc, matrix_vars>>

\* main with --file-path: the two range checks.
MainThresholds ==
    /\ main_pc = "start"
    /\ args.file_path # <<>>
    /\ IF ~InUnitRange(args.temporal_threshold)
       THEN /\ stderr' = stderr \o << <<"Error: Temporal threshold must be between 0.0 and 1.0">> >>
            /\ main_pc' = "exit1"
       ELSE IF ~InUnitRange(args.existential_threshold)
       THEN /\ stderr' = stderr \o << <<"Error: Existential threshold must be between 0.0 and 1.0">> >>
            /\ main_pc' = "exit1"
       ELSE /\ main_pc' = "parse"
            /\ UNCHANGED stderr
    /\ UNCHANGED <<classify_vars, stdout, args, app_state, pending_loads, task, started, last_task,
                   events>>

\* main without --file-path: the error of --print-ratios, or the App.
MainNoFile ==
    /\ main_pc = "start"
    /\ args.file_path = <<>>
    /\ IF args.print_ratios
       THEN /\ stderr' = stderr \o << <<"Error: --file-path is required when using --print-ratios in CLI mode.">> >>
            /\ main_pc' = "exit1"
       ELSE /\ main_pc' = "app"
            /\ UNCHANGED stderr
    /\ UNCHANGED <<classify_vars, stdout, args, app_state, pending_loads, task, started, last_task,
                   events>>

\* main: parse_into_traces(Some(&file_path), None) and its Err arm.
MainParse ==
    /\ main_pc = "parse"
    /\ started' = <<args.temporal_threshold, args.existential_threshold>>
    /\ \E outcome \in {"Ok", "Err"} :
          IF outcome = "Err"
          THEN /\ stderr' = stderr \o << <<"Error parsing XES file: ", "parse error">> >>
               /\ main_pc' = "exit1"
          ELSE /\ main_pc' = "mine"
               /\ UNCHANGED stderr
    /\ UNCHANGED <<classify_vars, stdout, args, app_state, pending_loads, task, last_task, events>>

\* main: generate_dependency_matrix, and the entry of classify_matrix.
MainMine ==
    /\ main_pc = "mine"
    /\ \E n \in 0..MaxMinedEntries : total_entries' = n
    /\ pc' = "new"
    /\ main_pc' = "classify"
    /\ UNCHANGED <<visited, counts, percentages,
                   primary_matched_categories_set, primary_rule_results_for_indicators,
                   secondary_matched_categories_set, secondary_rule_results_for_indicators,
                   result, return_site, matrix_vars,
                   stdout, stderr, args, app_state, pending_loads, task, started, last_task,
                   events>>

\* on_file_change with a file: FileSelected, and the FileReader started on it;
\* when read_as_text fails, FileLoaded(Err) through the same closure.
SelectFile(name, readable) ==
    /\ main_pc = "app"
    /\ task = <<>>
    /\ events < MaxEvents
    /\ events' = events + 1
    /\ IF readable
       THEN /\ Len(pending_loads) < MaxPendingLoads
            /\ app_state' = dispatch(app_state, <<"FileSelected", <<name>> >>)
            /\ pending_loads' = Append(pending_loads, app_state)
       ELSE /\ app_state' = dispatch(app_state,
                                     <<"FileLoaded", <<"Err", "Failed to initiate file read">> >>)
            /\ UNCHANGED pending_loads
    /\ UNCHANGED <<classify_vars, stdout, stderr, args, main_pc, task, started, last_task>>

\* on_file_change with an empty file list.
SelectNothing ==
    /\ main_pc = "app"
    /\ task = <<>>
    /\ events < MaxEvents
    /\ events' = events + 1
    /\ app_state' = dispatch(app_state, <<"FileSelected", <<>> >>)
    /\ UNCHANGED <<classify_vars, stdout, stderr, args, main_pc, pending_loads, task,
                   started, last_task>>

\* The onload closure of the i-th FileReader under way; loaded is the Result
\* it passes to FileLoaded.
FileRead(i, loaded) ==
    /\ main_pc = "app"
    /\ task = <<>>
    /\ events < MaxEvents
    /\ events' = events + 1
    /\ i \in DOMAIN pending_loads
    /\ app_state' = dispatch(pending_loads[i], <<"FileLoaded", loaded>>)
    /\ pending_loads' = [ j \in 1..(Len(pending_loads) - 1) |->
                            IF j < i THEN pending_loads[j] ELSE pending_loads[j + 1] ]
    /\ UNCHANGED <<classify_vars, stdout, stderr, args, main_pc, task, started, last_task>>

\* on_existential_threshold_change and on_temporal_threshold_change.
ThresholdChanged(message, text) ==
    /\ main_pc = "app"
    /\ task = <<>>
    /\ events < MaxEvents
    /\ events' = events + 1
    /\ app_state' = dispatch(app_state, <<message, text>>)
    /\ UNCHANGED <<classify_vars, stdout, stderr, args, main_pc, pending_loads, task,
                   started, last_task>>

\* on_process_log: the click on the button.
ProcessClicked ==
    /\ main_pc = "app"
    /\ task = <<>>
    /\ events < MaxEvents
    /\ events' = events + 1
    /\ LET app_state_snapshot == app_state
           temp_thresh_opt == parse_threshold_str(app_state_snapshot.temporal_threshold_str)
           ex_thresh_opt == parse_threshold_str(app_state_snapshot.existential_threshold_str)
       IN  /\ app_state_snapshot.file_content # <<>>
           /\ ~app_state_snapshot.is_processing
           /\ temp_thresh_opt # <<>>
           /\ ex_thresh_opt # <<>>
           /\ app_state' = dispatch(app_state_snapshot, <<"ProcessLog">>)
           /\ task' = [ state |-> app_state_snapshot,
                        content_clone |-> app_state_snapshot.file_content[1],
                        temp_thresh_val |-> temp_thresh_opt[1],
                        ex_thresh_val |-> ex_thresh_opt[1] ]
    /\ UNCHANGED <<classify_vars, stdout, stderr, args, main_pc, pending_loads,
                   started, last_task>>

\* The future of on_process_log, run by spawn_local: parse, mine, classify,
\* SetClassificationResult.
RunTask ==
    /\ main_pc = "app"
    /\ task # <<>>
    /\ started' = <<task.temp_thresh_val, task.ex_thresh_val>>
    /\ LET outcome == ParseOutcome(task.content_clone)
       IN  \E c \in IF outcome = "Traces" THEN Classification ELSE { <<>> } :
              /\ last_task' = [ parsed |-> outcome,
                                classified |-> IF outcome = "Traces" THEN <<c>> ELSE <<>> ]
              /\ app_state' = dispatch(task.state,
                                       <<"SetClassificationResult",
                                         classification_task_result(outcome, c)>>)
    /\ task' = <<>>
    /\ UNCHANGED <<classify_vars, stdout, stderr, args, main_pc, pending_loads, events>>

NextApp ==
    \/ MainThresholds
    \/ MainNoFile
    \/ MainParse
    \/ MainMine
    \/ NewEmpty
    \/ \E t \in TemporalType, e \in ExistentialType : VisitEntry(t, e)
    \/ NewOk
    \/ CheckUnstructured
    \/ ApplyPrimary
    \/ ApplySecondary
    \/ MostIndicators
    \/ PrintResult(args.print_ratios)
    \/ \E readable \in BOOLEAN : SelectFile("log.xes", readable)
    \/ SelectNothing
    \/ \E i \in 1..MaxPendingLoads :
       \E loaded \in { <<"Ok", content>> : content \in FileContents }
                     \cup { <<"Err", "Content is not a string">>, <<"Err", "JsValue">> } :
           FileRead(i, loaded)
    \/ \E message \in {"ExistentialThresholdChanged", "TemporalThresholdChanged"},
          text \in ThresholdStrings : ThresholdChanged(message, text)
    \/ ProcessClicked
    \/ RunTask

SpecApp == InitApp /\ [][NextApp]_vars

\* The executor of spawn_local polls every future it was given; the async block
\* of on_process_log awaits nothing that can stay pending.
SpecAppFair == InitApp /\ [][NextApp]_vars /\ WF_vars(RunTask)

(***************************************************************************)
(* Properties                                                              *)
(***************************************************************************)

\* classify_matrix has returned.
Returned == pc \in {"returned", "printed"}

\* The thresholds of the two short-circuit rules, stated on the raw counters.
U1Holds ==
    /\ counts.none_none * 100 > 80 * total_entries
    /\ counts.eventual_any * 100 < 10 * total_entries
    /\ counts.direct_any * 100 < 10 * total_entries

U2Holds == counts.none_equivalence * 100 > 80 * total_entries

\* The ratios of the matrix that was aggregated, and what each tier yields on them.
FinalRatios == Ratios(counts, total_entries)
PrimaryM == apply_primary_rules(FinalRatios)[1]
SecondaryM == apply_secondary_rules(FinalRatios)[1]
IndicatorResult ==
    calculate_by_most_indicators(apply_primary_rules(FinalRatios)[2],
                                 apply_secondary_rules(FinalRatios)[2])

\* C1: for every non-empty matrix whose ratios satisfy U1 or U2, classify_matrix
\* returns Unstructured, whatever the primary rules, the secondary rules and the
\* indicator scores would give.
C1_UnstructuredOverride ==
    (Returned /\ total_entries > 0 /\ (U1Holds \/ U2Holds)) => result = <<"Unstructured">>

\* C1 witness: U1 holds on a matrix whose primary rules match a category and
\* whose indicator scores name a category, and Unstructured was returned.
C1_Witness ==
    /\ pc = "returned" /\ total_entries > 0 /\ U1Holds
    /\ PrimaryM = {"LooselyStructured"}
    /\ IndicatorResult = <<"LooselyStructured">>
    /\ result = <<"Unstructured">>

\* C2: for the empty matrix classify_matrix returns Error("Input matrix is empty")
\* from the Err arm of CalculatedPercentages::new; it never returns a named
\* category and never evaluates a rule.
C2_EmptyMatrix ==
    total_entries = 0 =>
        /\ pc \in {"new", "returned", "printed"}
        /\ percentages = DefaultPercentages
        /\ primary_rule_results_for_indicators = <<>>
        /\ secondary_rule_results_for_indicators = <<>>
        /\ Returned => /\ result = <<"Error", "Input matrix is empty">>
                       /\ return_site = "empty"

\* C2 witness: the empty matrix has been classified.
C2_Witness == total_entries = 0 /\ pc = "returned" /\ result[1] = "Error"

\* C3: classify_matrix is total: it is never in the aborted position, before
\* the return it is at a position whose step is possible (the loop has entries
\* left or has visited them all, every later position has an unguarded step),
\* the indexed reads of the fallback scorer are in range, and the value returned
\* is a Classification.
C3_Total ==
    /\ pc \in {"new", "unstructured", "primary", "secondary", "indicators",
               "returned", "printed"}
    /\ pc = "new" => visited <= total_entries
    /\ pc = "indicators" =>
          IndicatorReadsInRange(primary_rule_results_for_indicators,
                                secondary_rule_results_for_indicators)
    /\ Returned => result \in Classification

\* C3 witness: the fallback scorer has done its indexed reads and returned.
C3_Witness ==
    /\ pc = "returned" /\ return_site = "indicators"
    /\ Len(primary_rule_results_for_indicators) = 7
    /\ Len(secondary_rule_results_for_indicators) = 3
    /\ result \in NamedClassification

\* C4: when no Unstructured rule holds and exactly one category has a passing
\* primary rule, classify_matrix returns that category, regardless of the
\* secondary rules and of the indicator scores.
C4_SinglePrimary ==
    (Returned /\ total_entries > 0 /\ ~U1Holds /\ ~U2Holds /\ Cardinality(PrimaryM) = 1)
        => /\ \A c \in PrimaryM : result = <<c>>
           /\ return_site = "primary_single"

\* C4 witness: the single primary category was returned although the indicator
\* scores name another result.
C4_Witness ==
    /\ pc = "returned" /\ return_site = "primary_single"
    /\ PrimaryM = {"Structured"}
    /\ result = <<"Structured">>
    /\ IndicatorResult # result

\* C5: when no Unstructured rule holds, primary matches {Structured, SemiStructured}
\* give StructuredSemiStructured and primary matches {SemiStructured,
\* LooselyStructured} give SemiStructuredLooselyStructured, regardless of the
\* secondary rules and of the indicator scores.
C5_PrimaryPairs ==
    (Returned /\ total_entries > 0 /\ ~U1Holds /\ ~U2Holds)
        => /\ PrimaryM = {"Structured", "SemiStructured"}
                => result = <<"StructuredSemiStructured">>
           /\ PrimaryM = {"SemiStructured", "LooselyStructured"}
                => result = <<"SemiStructuredLooselyStructured">>

\* C5 witness: the pair {SemiStructured, LooselyStructured} was merged although
\* the indicator scores name another result.
C5_Witness ==
    /\ pc = "returned"
    /\ PrimaryM = {"SemiStructured", "LooselyStructured"}
    /\ result = <<"SemiStructuredLooselyStructured">>
    /\ IndicatorResult # result

\* C6: when no Unstructured rule holds and the primary matched set is empty,
\* {Structured, LooselyStructured} or all three categories, a single matching
\* secondary category is returned, and with zero or several matching secondary
\* categories the result comes from indicator scoring.
C6_SecondaryTier ==
    (/\ Returned /\ total_entries > 0 /\ ~U1Holds /\ ~U2Holds
     /\ PrimaryM \in { {}, {"Structured", "LooselyStructured"}, RuleCategory })
        => IF Cardinality(SecondaryM) = 1
           THEN /\ \A c \in SecondaryM : result = <<c>>
                /\ return_site = "secondary_single"
           ELSE /\ return_site = "indicators"
                /\ result = IndicatorResult

\* C6 witness: no primary rule matched, only BS2 matched, SemiStructured returned.
C6_Witness ==
    /\ pc = "returned" /\ PrimaryM = {}
    /\ SecondaryM = {"SemiStructured"}
    /\ result = <<"SemiStructured">>
    /\ return_site = "secondary_single"

\* The number of true sub-conditions of the i-th rule result of a tier.
TrueSubConditions(rule_results, i) ==
    Cardinality({ k \in DOMAIN rule_results[i][2] : rule_results[i][2][k] })

\* The score of section 4.3, step 4, on the rule results the fallback received.
ScoreOf(category) ==
    LET P(i) == TrueSubConditions(primary_rule_results_for_indicators, i)
        B(i) == TrueSubConditions(secondary_rule_results_for_indicators, i)
    IN  CASE category = "Structured" -> 2 * (P(1) + P(2) + P(3)) + B(1)
          [] category = "SemiStructured" -> 2 * (P(4) + P(5)) + B(2)
          [] category = "LooselyStructured" -> 2 * (P(6) + P(7)) + B(3)

\* The categories that share the highest score.
Tied == { c \in RuleCategory : \A d \in RuleCategory : ScoreOf(d) <= ScoreOf(c) }

FallbackReturned == Returned /\ return_site = "indicators"

\* C7: in the fallback a category's score is twice the number of true
\* sub-conditions of its primary rules plus the number of true sub-conditions of
\* its secondary rule, and a category whose score is strictly greater than both
\* others is the result.
C7_StrictWinner ==
    FallbackReturned =>
        \A c \in RuleCategory :
            (\A d \in RuleCategory \ {c} : ScoreOf(c) > ScoreOf(d)) => result = <<c>>

\* C7 witness: Structured won the fallback by the doubled weight of its primary
\* sub-conditions: counting every sub-condition once it would not lead.
C7_Witness ==
    /\ pc = "returned" /\ return_site = "indicators"
    /\ ScoreOf("Structured") > ScoreOf("SemiStructured")
    /\ ScoreOf("Structured") > ScoreOf("LooselyStructured")
    /\ result = <<"Structured">>
    /\ LET P(i) == TrueSubConditions(primary_rule_results_for_indicators, i)
           B(i) == TrueSubConditions(secondary_rule_results_for_indicators, i)
       IN  P(1) + P(2) + P(3) + B(1) <= P(4) + P(5) + B(2)

\* C8: in the fallback, when the maximum non-zero score is shared: all three
\* tied gives SemiStructured, {Structured, SemiStructured} gives
\* StructuredSemiStructured, {SemiStructured, LooselyStructured} gives
\* SemiStructuredLooselyStructured, {Structured, LooselyStructured} gives
\* SemiStructured.
C8_Ties ==
    (FallbackReturned /\ \E c \in RuleCategory : ScoreOf(c) > 0)
        => /\ Tied = RuleCategory => result = <<"SemiStructured">>
           /\ Tied = {"Structured", "SemiStructured"}
                => result = <<"StructuredSemiStructured">>
           /\ Tied = {"SemiStructured", "LooselyStructured"}
                => result = <<"SemiStructuredLooselyStructured">>
           /\ Tied = {"Structured", "LooselyStructured"} => result = <<"SemiStructured">>

\* C8 witness: Structured and LooselyStructured shared the highest score and
\* the fallback returned SemiStructured.
C8_Witness ==
    /\ pc = "returned" /\ return_site = "indicators"
    /\ Tied = {"Structured", "LooselyStructured"}
    /\ result = <<"SemiStructured">>

MatchedRuleNames ==
    IF total_entries = 0 THEN {}
    ELSE LET p == FinalRatios
         IN  (IF check_rule_u1(p) THEN {"U1"} ELSE {})
             \cup (IF check_rule_u2(p) THEN {"U2"} ELSE {})
             \cup (IF check_rule_s1(p)[1] THEN {"S1"} ELSE {})
             \cup (IF check_rule_s2(p)[1] THEN {"S2"} ELSE {})
             \cup (IF check_rule_s3(p)[1] THEN {"S3"} ELSE {})
             \cup (IF check_rule_ss1(p)[1] THEN {"SS1"} ELSE {})
             \cup (IF check_rule_ss2(p)[1] THEN {"SS2"} ELSE {})
             \cup (IF check_rule_ls1(p)[1] THEN {"LS1"} ELSE {})
             \cup (IF check_rule_ls2(p)[1] THEN {"LS2"} ELSE {})
             \cup (IF check_rule_bs1(p)[1] THEN {"BS1"} ELSE {})
             \cup (IF check_rule_bs2(p)[1] THEN {"BS2"} ELSE {})
             \cup (IF check_rule_bl1(p)[1] THEN {"BL1"} ELSE {})

\* The pieces of text of a value or of the printed lines.
PiecesOf(value) == { value[i] : i \in DOMAIN value }
PrintedPieces == UNION { PiecesOf(stdout[i]) : i \in DOMAIN stdout }

C11_RatiosInUnitInterval ==
    (total_entries > 0 /\ pc # "new") =>
        /\ \A f \in DOMAIN percentages :
              /\ percentages[f][2] = total_entries
              /\ 0 <= percentages[f][1]
              /\ percentages[f][1] <= percentages[f][2]
        /\ percentages.none_none[1] = counts.none_none
        /\ percentages.none_implication[1] = counts.none_implication
        /\ percentages.none_equivalence[1] = counts.none_equivalence
        /\ percentages.none_negated_equivalence[1] = counts.none_negated_equivalence
        /\ percentages.eventual_equivalence[1] = counts.eventual_equivalence
        /\ percentages.eventual_implication[1] = counts.eventual_implication
        /\ percentages.eventual_any_existential[1] = counts.eventual_any
        /\ percentages.direct_any_existential[1] = counts.direct_any
        /\ percentages.direct_none[1] = counts.direct_none

\* C11 witness: a matrix of three entries, each Eventual with Implication: two
\* ratios are 1.0 and none_none is 0.0, the two ends of the interval.
C11_Witness ==
    /\ pc = "unstructured" /\ total_entries = 3
    /\ percentages.eventual_any_existential = <<3, 3>>
    /\ percentages.eventual_implication = <<3, 3>>
    /\ percentages.none_none = <<0, 3>>


(***************************************************************************)
(* The aggregation loop, entry by entry (SpecMatrix)                       *)
(***************************************************************************)

\* The step is one loop iteration that takes a stored entry of kind <<t, e>>.
Visits(t, e) ==
    /\ pc = "new" /\ pc' = "new"
    /\ visited' = visited + 1
    /\ unvisited' = [ unvisited EXCEPT ![<<t, e>>] = @ - 1 ]

\* The counters whose value the step changes.
ChangedCounters == { c \in CounterNames : counts'[c] # counts[c] }

\* The step adds one to each counter in cs and leaves the others alone.
AddsOneTo(cs) ==
    \A c \in CounterNames : counts'[c] = IF c \in cs THEN counts[c] + 1 ELSE counts[c]

C13_NandOrUncounted ==
    [][ /\ \A e \in {"Nand", "Or"} :
              Visits("None", e) => (counts' = counts /\ total_entries' = total_entries)
        /\ (pc = "new" /\ pc' = "unstructured") =>
              \A f \in DOMAIN percentages' :
                  percentages'[f][2] = BagSize(matrix) ]_vars

\* A matrix of a (no temporal, Nand) entry and an entry without any relation
\* has been aggregated: none_none is 1/2 and the other eight ratios are 0/2.
C13_Witness ==
    /\ pc = "unstructured"
    /\ matrix[<<"None", "Nand">>] = 1
    /\ matrix[<<"None", "None">>] = 1
    /\ total_entries = 2
    /\ percentages.none_none = <<1, 2>>
    /\ \A f \in DOMAIN percentages \ {"none_none"} : percentages[f] = <<0, 2>>

RatiosOfBag(bag) ==
    LET n == BagSize(bag)
        Some == ExistentialType \ {"None"}
    IN  [ none_none |-> <<bag[<<"None", "None">>], n>>,
          none_implication |-> <<bag[<<"None", "Implication">>], n>>,
          none_equivalence |-> <<bag[<<"None", "Equivalence">>], n>>,
          none_negated_equivalence |-> <<bag[<<"None", "NegatedEquivalence">>], n>>,
          eventual_equivalence |-> <<bag[<<"Eventual", "Equivalence">>], n>>,
          eventual_implication |-> <<bag[<<"Eventual", "Implication">>], n>>,
          eventual_any_existential |-> <<SumOver(bag, {"Eventual"} \X Some), n>>,
          direct_any_existential |-> <<SumOver(bag, {"Direct"} \X Some), n>>,
          direct_none |-> <<bag[<<"Direct", "None">>], n>> ]

\* C15: whatever the order in which the entries are visited, the nine ratios
\* of a non-empty matrix are those of its multiset of annotations, and a
\* matrix with the same multiset visited in any other order gets the same
\* classification.
C15_OrderIndependent ==
    /\ (total_entries > 0 /\ pc # "new") => percentages = RatiosOfBag(matrix)
    /\ (call = 2 /\ Returned) => result = first_result

\* Three entries of different kinds have been visited in one order and then in
\* an order of their own, and both visits gave a named category.
C15_Witness ==
    /\ call = 2 /\ pc = "returned"
    /\ matrix[<<"None", "Nand">>] = 1
    /\ matrix[<<"Eventual", "Equivalence">>] = 1
    /\ matrix[<<"None", "None">>] = 1
    /\ percentages.eventual_any_existential = <<1, 3>>
    /\ result \in NamedClassification
    /\ result = first_result

Bs2TestMatrix ==
    build_detailed_matrix_from_counts_array(<<19, 41, 0, 0, 0, 0, 0, 0, 0, 40>>)

Under(c, h) == counts[c] * 100 < h * total_entries
Over(c, h) == counts[c] * 100 > h * total_entries
AtMost(c, h) == counts[c] * 100 <= h * total_entries
AtLeast(c, h) == counts[c] * 100 >= h * total_entries

\* The sub-conditions of the ten multi-condition rules as section 4.2 lists them.
Section42 ==
    [ S1 |-> << Under("none_none", 5), Under("none_implication", 10),
                Over("eventual_equivalence", 10), Over("eventual_implication", 40) >>,
      S2 |-> << Under("none_none", 5), AtMost("none_implication", 15),
                AtLeast("eventual_equivalence", 10), Over("eventual_implication", 30) >>,
      S3 |-> << Over("direct_none", 50) >>,
      SS1 |-> << Under("none_none", 35), Over("none_implication", 30),
                 Under("eventual_equivalence", 5), Under("eventual_implication", 20) >>,
      SS2 |-> << Under("none_none", 25), Over("none_implication", 1),
                 Over("eventual_equivalence", 10), Under("eventual_implication", 40) >>,
      LS1 |-> << Over("none_none", 20), Under("none_implication", 35),
                 Under("eventual_equivalence", 10), Under("eventual_implication", 30) >>,
      LS2 |-> << Over("none_none", 50), Under("none_implication", 10),
                 Under("eventual_equivalence", 5), Under("eventual_implication", 25) >>,
      BS1 |-> << Under("none_none", 10), Over("none_negated_equivalence", 50),
                 Over("eventual_implication", 60) >>,
      BS2 |-> << Under("none_none", 20), Over("none_implication", 40) >>,
      BL1 |-> << Over("none_none", 60), Under("none_implication", 30) >> ]

\* The verdict and the sub-conditions of a rule of section 4.2.
Verdict42(rule) ==
    << \A i \in DOMAIN Section42[rule] : Section42[rule][i], Section42[rule] >>

\* The number of sub-conditions of a rule of section 4.2 that hold.
Holding42(rule) ==
    Cardinality({ i \in DOMAIN Section42[rule] : Section42[rule][i] })

\* The score of a category counted on the sub-conditions of section 4.2.
Score42(category) ==
    CASE category = "Structured" ->
            2 * (Holding42("S1") + Holding42("S2") + Holding42("S3")) + Holding42("BS1")
      [] category = "SemiStructured" ->
            2 * (Holding42("SS1") + Holding42("SS2")) + Holding42("BS2")
      [] category = "LooselyStructured" ->
            2 * (Holding42("LS1") + Holding42("LS2")) + Holding42("BL1")

TextInUnitRange(text) ==
    \E v \in { F64(10), F64(15), F64(0 - 5), NaN } :
        /\ ParseF64(text) = <<v>>
        /\ ~v.nan /\ v.tenths >= 0 /\ v.tenths <= 10

\* The value is an f64 from 0.0 to 1.0.
ValueInUnitRange(v) == ~v.nan /\ v.tenths >= 0 /\ v.tenths <= 10

\* C18: parse_into_traces, generate_dependency_matrix and classify_matrix are
\* only reached with both thresholds in [0.0, 1.0]: on the command line a
\* threshold outside the range ends main with its message on stderr and exit
\* code 1 before parse_into_traces, and in the App ProcessLog is dispatched and
\* the future spawned only when both texts parse to a value in the range.
C18_ThresholdsInRange ==
    /\ started # <<>> => (ValueInUnitRange(started[1]) /\ ValueInUnitRange(started[2]))
    /\ (main_pc \in {"parse", "mine", "classify"} \/ pc # "idle") =>
          /\ ValueInUnitRange(args.temporal_threshold)
          /\ ValueInUnitRange(args.existential_threshold)
    /\ (main_pc # "start" /\ args.file_path # <<>>
          /\ ~ValueInUnitRange(args.temporal_threshold)) =>
          /\ main_pc = "exit1" /\ started = <<>> /\ pc = "idle" /\ stdout = <<>>
          /\ stderr = << <<"Error: Temporal threshold must be between 0.0 and 1.0">> >>
    /\ (main_pc # "start" /\ args.file_path # <<>>
          /\ ValueInUnitRange(args.temporal_threshold)
          /\ ~ValueInUnitRange(args.existential_threshold)) =>
          /\ main_pc = "exit1" /\ started = <<>> /\ pc = "idle" /\ stdout = <<>>
          /\ stderr = << <<"Error: Existential threshold must be between 0.0 and 1.0">> >>
    /\ app_state.is_processing => task # <<>>
    /\ task # <<>> =>
          /\ TextInUnitRange(task.state.temporal_threshold_str)
          /\ TextInUnitRange(task.state.existential_threshold_str)
          /\ ValueInUnitRange(task.temp_thresh_val)
          /\ ValueInUnitRange(task.ex_thresh_val)

\* main has ended with exit code 1 on an existential threshold that is NaN,
\* without a call of parse_into_traces.
C18_Witness ==
    /\ main_pc = "exit1"
    /\ args.file_path # <<>>
    /\ args.temporal_threshold = F64(10)
    /\ args.existential_threshold = NaN
    /\ started = <<>>
    /\ Len(stderr) = 1

\* The classification_result of the AppState is None, Some(Ok(c)) with c one of
\* the six named categories, or Some(Err(e)) with e of one of the three kinds.
StoredResultTyped(state) ==
    \/ state.classification_result = <<>>
    \/ \E c \in NamedClassification : state.classification_result = << <<"Ok", c>> >>
    \/ /\ Len(state.classification_result) = 1
       /\ state.classification_result[1][1] = "Err"
       /\ state.classification_result[1][2][1]
              \in {"FileReadError", "XesParseError", "ClassificationError"}

\* C19: the App stores None, Ok of one of the six named categories, or a typed
\* failure.  When the spawned future ends, an Error(msg) returned by
\* classify_matrix is stored as Err(ClassificationError(msg)), a parse failure
\* and an empty trace list are stored as Err(XesParseError) and classify_matrix
\* has not been called, any other value c is stored as Ok(c), and is_processing
\* is false.  When a FileReader load ends, the file content is stored or
\* Err(FileReadError) is.
C19_TypedResults ==
    [][ /\ StoredResultTyped(app_state')
        /\ (task # <<>> /\ task' = <<>>) =>
              LET stored == app_state'.classification_result
                  called == last_task'.classified
              IN  /\ ~app_state'.is_processing
                  /\ Len(stored) = 1
                  /\ last_task'.parsed \in {"Err", "Empty"} =>
                        /\ called = <<>>
                        /\ stored[1][1] = "Err"
                        /\ stored[1][2][1] = "XesParseError"
                  /\ last_task'.parsed = "Empty" =>
                        stored[1][2][2] = "No traces found in log."
                  /\ last_task'.parsed = "Traces" =>
                        /\ Len(called) = 1
                        /\ called[1][1] = "Error" =>
                              stored = << <<"Err", <<"ClassificationError", called[1][2]>> >> >>
                        /\ called[1][1] # "Error" => stored = << <<"Ok", called[1]>> >>
        /\ Len(pending_loads') < Len(pending_loads) =>
              \/ /\ app_state'.file_content # <<>>
              \/ /\ app_state'.file_content = <<>>
                 /\ Len(app_state'.classification_result) = 1
                 /\ app_state'.classification_result[1][1] = "Err"
                 /\ app_state'.classification_result[1][2][1] = "FileReadError" ]_vars

\* A spawned future has ended on a log whose mined matrix is empty:
\* classify_matrix returned Error("Input matrix is empty") and the App stores
\* Err(ClassificationError("Input matrix is empty")).
C19_Witness ==
    /\ main_pc = "app"
    /\ task = <<>>
    /\ last_task # <<>>
    /\ last_task.parsed = "Traces"
    /\ last_task.classified = << <<"Error", "Input matrix is empty">> >>
    /\ app_state.classification_result =
          << <<"Err", <<"ClassificationError", "Input matrix is empty">> >> >>
    /\ ~app_state.is_processing


\* C21: a matrix whose none_none ratio is exactly 0.80 is never classified
\* Unstructured, whatever its other entries are, and the matrix of
\* test_log16_looselystructured is classified LooselyStructured.
C21_StrictUnstructured ==
    /\ (Returned /\ counts.none_none * 100 = 80 * total_entries /\ total_entries > 0) =>
          /\ result # <<"Unstructured">>
          /\ return_site \notin {"u1", "u2"}
    /\ (Returned /\ matrix = build_detailed_matrix_from_counts_array(Log16Counts)) =>
          result = <<"LooselyStructured">>

\* classify_matrix has returned LooselyStructured on the matrix of
\* test_log16_looselystructured, whose none_none ratio is 80/100.
C21_Witness ==
    /\ pc = "returned"
    /\ matrix = build_detailed_matrix_from_counts_array(Log16Counts)
    /\ percentages.none_none = <<80, 100>>
    /\ result = <<"LooselyStructured">>


(***************************************************************************)
(* Branches no matrix reaches (Spec)                                       *)
(***************************************************************************)

\* C23: for every non-empty matrix classify_matrix returns one of the six
\* named categories; when the fallback is reached, none_none < 0.35 (SS1) or
\* none_none > 0.20 (LS1) holds, so SemiStructured or LooselyStructured has a
\* positive score and the fallback returns a named category.
C23_NeverError ==
    /\ (Returned /\ total_entries > 0) => result \in NamedClassification
    /\ (pc \in {"indicators", "panic"} \/ FallbackReturned) =>
          /\ \/ counts.none_none * 100 < 35 * total_entries
             \/ counts.none_none * 100 > 20 * total_entries
          /\ \/ primary_rule_results_for_indicators[4][2][1]
             \/ primary_rule_results_for_indicators[6][2][1]
          /\ ScoreOf("SemiStructured") > 0 \/ ScoreOf("LooselyStructured") > 0
    /\ pc # "panic"

\* The fallback has returned a named category on a matrix whose none_none is
\* at least 0.35, where only LS1's none_none > 0.20 holds of the two.
C23_Witness ==
    /\ pc = "returned" /\ return_site = "indicators"
    /\ result \in NamedClassification
    /\ ~primary_rule_results_for_indicators[4][2][1]
    /\ primary_rule_results_for_indicators[6][2][1]

\* C24: BS1 passes for no matrix: none_negated_equivalence and
\* eventual_implication count different entries, so they are not above 0.50
\* and above 0.60 of the same total; the secondary tier never returns
\* Structured.
C24_BS1NeverPasses ==
    /\ counts.none_negated_equivalence + counts.eventual_implication <= visited
    /\ secondary_rule_results_for_indicators # <<>> =>
          /\ ~secondary_rule_results_for_indicators[1][1]
          /\ ~(secondary_rule_results_for_indicators[1][2][2]
                 /\ secondary_rule_results_for_indicators[1][2][3])
          /\ "Structured" \notin secondary_matched_categories_set
    /\ (Returned /\ return_site = "secondary_single") => result # <<"Structured">>

\* The secondary rules have been applied to a matrix on which BS1 fails with
\* two of its three sub-conditions true.
C24_Witness ==
    /\ secondary_rule_results_for_indicators # <<>>
    /\ secondary_rule_results_for_indicators[1] = <<FALSE, <<TRUE, TRUE, FALSE>>>>
    /\ Returned

\* C25: at most one secondary category matches: BS2 and BL1 never pass
\* together and BS1 never passes, so the secondary match is empty or single.
C25_OneSecondaryMatch ==
    /\ Cardinality(secondary_matched_categories_set) <= 1
    /\ secondary_rule_results_for_indicators # <<>> =>
          ~(secondary_rule_results_for_indicators[2][1]
              /\ secondary_rule_results_for_indicators[3][1])
    /\ (Returned /\ secondary_rule_results_for_indicators # <<>>
          /\ secondary_matched_categories_set # {}
          /\ Cardinality(primary_matched_categories_set) # 1) =>
          return_site = "secondary_single"

\* BL1 alone has passed and the secondary tier has returned LooselyStructured.
C25_Witness ==
    /\ pc = "returned" /\ return_site = "secondary_single"
    /\ secondary_matched_categories_set = {"LooselyStructured"}
    /\ secondary_rule_results_for_indicators[3][1]
    /\ ~secondary_rule_results_for_indicators[2][1]

\* C26: the primary rules never match all three categories: SemiStructured
\* and LooselyStructured match together only through SS1 and LS1, and then no
\* Structured rule passes.
C26_NeverAllThree ==
    /\ Cardinality(primary_matched_categories_set) <= 2
    /\ {"SemiStructured", "LooselyStructured"} \subseteq primary_matched_categories_set =>
          /\ primary_rule_results_for_indicators[4][1]
          /\ primary_rule_results_for_indicators[6][1]
          /\ ~primary_rule_results_for_indicators[5][1]
          /\ ~primary_rule_results_for_indicators[7][1]
          /\ counts.none_none * 100 > 20 * total_entries
          /\ counts.none_implication * 100 > 30 * total_entries
          /\ \A i \in 1..3 : ~primary_rule_results_for_indicators[i][1]

\* SS1 and LS1 have passed on a matrix that also holds a Direct entry without
\* existential relation, and no Structured rule has.
C26_Witness ==
    /\ Returned
    /\ primary_matched_categories_set = {"SemiStructured", "LooselyStructured"}
    /\ counts.direct_none > 0


\* C22: a processing run is started only by a click on an AppState with file
\* content and is_processing false; while it is in flight is_processing is
\* true and no other run is started nor any other event handled; its
\* SetClassificationResult ends it, with is_processing false and a result
\* stored; and every started run is ended.
C22_OneRunInFlight ==
    /\ [](app_state.is_processing <=> task # <<>>)
    /\ [](task # <<>> => (task.state.file_content = <<task.content_clone>>
                            /\ ~task.state.is_processing))
    /\ [][ /\ (task = <<>> /\ task' # <<>>) =>
                 /\ app_state.file_content # <<>>
                 /\ ~app_state.is_processing
                 /\ task'.state = app_state
                 /\ events' = events + 1
           /\ task # <<>> =>
                 /\ task' = <<>>
                 /\ events' = events
                 /\ ~app_state'.is_processing
                 /\ Len(app_state'.classification_result) = 1
                 /\ last_task' # <<>> ]_vars
    /\ (task # <<>>) ~> (task = <<>>)

\* A first run has ended and a second run, started by a second click, is in
\* flight.
C22_Witness ==
    /\ main_pc = "app"
    /\ last_task # <<>>
    /\ task # <<>>
    /\ app_state.is_processing
    /\ app_state.classification_result = <<>>

====
